---- MODULE Spec2Model ----
(***************************************************************************)
(* SecureSight website security checker.                                   *)
(*                                                                         *)
(* Two components are modelled:                                            *)
(*   - the Explainer (ai_helper.py): prompt rendering, the lru_cache       *)
(*     wrapper around the Gemini call, the lock-protected rate limiter,    *)
(*     the error classification of generate_ai_explanation, and            *)
(*     clear_ai_cache / is_api_configured; callers are concurrent threads  *)
(*     (one per user session of the app);                                  *)
(*   - the Scanner (security_checks.py): URL normalisation, the HEAD       *)
(*     reachability probe and the three checks of perform_security_scan.   *)
(*                                                                         *)
(* Strings that the code inspects or transforms are sequences of tokens    *)
(* (one-character or one-word strings), so that strip(), lower(),          *)
(* startswith() and `in` are computed rather than assumed.  Time is a      *)
(* natural number of ticks of 0.4 s.                                       *)
(***************************************************************************)
EXTENDS Naturals, Sequences, FiniteSets, TLC

VARIABLES
    \* ---- Explainer (ai_helper.py) ----
    clock,            \* time.time(), in ticks
    last_call_time,   \* _last_call_time
    lock,             \* holder of _last_call_lock, or "free"
    cache,            \* _cached_call's LRU store, least recently used first
    api_key,          \* os.getenv("GEMINI_API_KEY")
    genai,            \* TRUE iff `import google.genai` succeeded
    pc,               \* position of each caller thread
    key,              \* lru_cache key (prompt_text, model) of the running call
    wake,             \* end of the running time.sleep
    ret,              \* value returned by the thread's last finished call
    clear_ret,        \* value returned by the last clear_ai_cache
    started,          \* number of generate_ai_explanation calls so far
    done,             \* history: <<key, text>> of calls whose external call
                      \*   returned, key neither cleared nor evicted since
    dropped,          \* history: keys removed by some clear_ai_cache
    \* ---- Scanner (security_checks.py) ----
    spc,              \* position inside perform_security_scan
    url,              \* the (normalised) url of the running scan
    status_code,      \* status of the HEAD response
    issues,           \* the local list `issues`
    requests,         \* history: the HTTP requests of the last scan, with
                      \*   what each one raised or returned
    result            \* the dictionary returned by the last scan

evars == <<clock, last_call_time, lock, cache, api_key, genai, pc, key, wake,
           ret, clear_ret, started, done, dropped>>
svars == <<spc, url, status_code, issues, requests, result>>
vars == <<evars, svars>>

----------------------------------------------------------------------------
(* Bounds of the model *)

\* the clock stops advancing here
MaxClock == 6
\* number of generate_ai_explanation calls in one behaviour
MaxExplains == 3
\* capacity of the lru_cache; the source's 256 scaled down so that eviction
\* happens within the bounds
maxsize == 2

\* _MIN_CALL_INTERVAL = 0.8 s, in ticks of 0.4 s
MIN_CALL_INTERVAL == 2

Threads == {"t1", "t2"}

----------------------------------------------------------------------------
(* Text helpers *)

Whitespace == {" ", "\n"}

RECURSIVE LStrip(_)
LStrip(s) == IF s # <<>> /\ Head(s) \in Whitespace THEN LStrip(Tail(s)) ELSE s

RECURSIVE RStrip(_)
RStrip(s) ==
    IF s # <<>> /\ s[Len(s)] \in Whitespace
    THEN RStrip(SubSeq(s, 1, Len(s) - 1)) ELSE s

\* str.strip()
Strip(s) == RStrip(LStrip(s))

\* str.lower(), token by token
LowerTok(w) ==
    CASE w = "Quota" -> "quota"
      [] w = "QUOTA" -> "quota"
      [] w = "Unauthorized" -> "unauthorized"
      [] w = "Permission" -> "permission"
      [] OTHER -> w

Lower(s) == [i \in 1..Len(s) |-> LowerTok(s[i])]

\* `w in s` for a one-token needle
Contains(s, w) == \E i \in 1..Len(s) : s[i] = w

----------------------------------------------------------------------------
(* generate_ai_prompt *)

Get(issue, k, default) == IF k \in DOMAIN issue THEN issue[k] ELSE default

generate_ai_prompt(issue) ==
    LET title == Get(issue, "title", "Unknown Issue")
        details == Get(issue, "details", "No details available")
        fix == Get(issue, "fix", "No fix information available")
        severity == Get(issue, "severity", "Unknown")
    IN Strip(<<"\n", "Issue: ", title, "Severity: ", severity,
               "Description: ", details, "Recommended Fix: ", fix,
               "Please explain:", "\n">>)

DefaultModel == "gemini-2.0-flash"

\* the arguments lru_cache hashes: (prompt_text, model)
CacheKey(issue) == <<generate_ai_prompt(issue), DefaultModel>>

\* Issue dictionaries handed to generate_ai_explanation.  The second and the
\* third are different dictionaries that render the same prompt.
ExplainIssues ==
    { [title |-> "Missing HTTPS", severity |-> "High",
       details |-> "no https", fix |-> "use tls"],
      [title |-> "Unknown Issue", severity |-> "Medium",
       details |-> "d", fix |-> "f"],
      [severity |-> "Medium", details |-> "d", fix |-> "f"],
      [title |-> "Server Information Exposed", severity |-> "Medium",
       details |-> "d", fix |-> "f"] }

Keys == {CacheKey(i) : i \in ExplainIssues}

----------------------------------------------------------------------------
(* The values generate_ai_explanation can return *)

NoKeyAdvisory == <<"Gemini API key not found">>
NoPackageAdvisory == <<"google-genai package is not installed">>
EmptyResponseAdvisory == <<"Gemini API returned an empty response">>
NoResponseAdvisory == <<"No response from Gemini API">>
QuotaAdvisory == <<"API Quota Exceeded">>
AuthAdvisory == <<"Authentication Error">>
PermissionAdvisory == <<"Permission Error">>
GenericAdvisory(error_msg) == <<"Error: ">> \o error_msg \o <<"check connection">>

\* What client.models.generate_content may hand back: a falsy response, a
\* response without text, with empty text, or with text.
Responses ==
    { [truthy |-> FALSE],
      [truthy |-> TRUE],
      [truthy |-> TRUE, text |-> <<>>],
      [truthy |-> TRUE, text |-> <<" ", "A", "\n">>],
      [truthy |-> TRUE, text |-> <<"B">>] }

\* str(e) of the exceptions the client may raise
ErrorMsgs ==
    { <<"429">>, <<"401", "Quota">>, <<"401">>, <<"403", "Unauthorized">>,
      <<"403">>, <<"Permission">>, <<"timeout">> }

\* lines 91-96 of _call_gemini_for_prompt
ResponseText(response) ==
    IF response.truthy /\ "text" \in DOMAIN response /\ response.text # <<>>
    THEN Strip(response.text)
    ELSE IF response.truthy THEN EmptyResponseAdvisory
    ELSE NoResponseAdvisory

\* the except branch with the authentication test before the quota test
HandleAuthFirst(error_msg) ==
    IF Contains(error_msg, "401") \/ Contains(Lower(error_msg), "unauthorized")
    THEN AuthAdvisory
    ELSE IF Contains(error_msg, "429") \/ Contains(Lower(error_msg), "quota")
    THEN QuotaAdvisory
    ELSE IF Contains(error_msg, "403") \/ Contains(Lower(error_msg), "permission")
    THEN PermissionAdvisory
    ELSE GenericAdvisory(error_msg)

\* the except branch of generate_ai_explanation
HandleException(error_msg) ==
    IF Contains(error_msg, "429") \/ Contains(Lower(error_msg), "quota")
    THEN QuotaAdvisory
    ELSE IF Contains(error_msg, "401") \/ Contains(Lower(error_msg), "unauthorized")
    THEN AuthAdvisory
    ELSE IF Contains(error_msg, "403") \/ Contains(Lower(error_msg), "permission")
    THEN PermissionAdvisory
    ELSE GenericAdvisory(error_msg)

\* `not api_key`: unset and empty both count as missing
ApiKeys == {"unset", "", "secret"}
KeyMissing == api_key \in {"unset", ""}

is_api_configured ==
    IF KeyMissing THEN <<FALSE, "GEMINI_API_KEY not set">>
    ELSE IF ~genai THEN <<FALSE, "google-genai package not installed">>
    ELSE <<TRUE, "Gemini API available">>

----------------------------------------------------------------------------
(* functools.lru_cache(maxsize) *)

CachedKeys == {cache[i].key : i \in 1..Len(cache)}

CacheIndex(k) == CHOOSE i \in 1..Len(cache) : cache[i].key = k

CacheValue(k) == cache[CacheIndex(k)].value

Remove(s, i) == SubSeq(s, 1, i - 1) \o SubSeq(s, i + 1, Len(s))

\* a hit moves the entry to the most-recently-used end
CacheTouch(k) == Append(Remove(cache, CacheIndex(k)), cache[CacheIndex(k)])

\* the keys an insertion of k evicts
Evicted(k) ==
    IF k \notin CachedKeys /\ Len(cache) >= maxsize /\ cache # <<>>
    THEN {cache[1].key} ELSE {}

\* after the wrapped call returned: keep an entry some other thread added
\* meanwhile, else insert, evicting the least recently used entry when full
CacheStore(k, v) ==
    IF k \in CachedKeys THEN cache
    ELSE IF Len(cache) < maxsize THEN Append(cache, [key |-> k, value |-> v])
    ELSE Append(Tail(cache), [key |-> k, value |-> v])

----------------------------------------------------------------------------
(* Explainer: the steps of one generate_ai_explanation call of thread t *)

NotReturned == <<"(call running)">>
NoKey == <<>>

Return(t, v) ==
    /\ pc' = [pc EXCEPT ![t] = "idle"]
    /\ ret' = [ret EXCEPT ![t] = v]
    /\ key' = [key EXCEPT ![t] = NoKey]

\* generate_ai_explanation with the rate limiter's time stamp taken before
\* the cache is consulted, so that a hit also writes _last_call_time
ExplainHitStamps(t, issue) ==
    /\ pc[t] = "idle"
    /\ started < MaxExplains
    /\ started' = started + 1
    /\ IF KeyMissing
       THEN Return(t, NoKeyAdvisory) /\ UNCHANGED <<cache, last_call_time>>
       ELSE IF ~genai
       THEN Return(t, NoPackageAdvisory) /\ UNCHANGED <<cache, last_call_time>>
       ELSE LET k == CacheKey(issue) IN
            IF k \in CachedKeys
            THEN /\ Return(t, CacheValue(k))
                 /\ cache' = CacheTouch(k)
                 /\ last_call_time' = clock
            ELSE /\ pc' = [pc EXCEPT ![t] = "wait"]
                 /\ key' = [key EXCEPT ![t] = k]
                 /\ ret' = [ret EXCEPT ![t] = NotReturned]
                 /\ UNCHANGED <<cache, last_call_time>>
    /\ UNCHANGED <<clock, lock, api_key, genai, wake, clear_ret, done, dropped>>

\* generate_ai_explanation with the two configuration checks in the other
\* order (the library first, the credential second)
ExplainLibraryFirst(t, issue) ==
    /\ pc[t] = "idle"
    /\ started < MaxExplains
    /\ started' = started + 1
    /\ IF ~genai
       THEN Return(t, NoPackageAdvisory) /\ UNCHANGED cache
       ELSE IF KeyMissing
       THEN Return(t, NoKeyAdvisory) /\ UNCHANGED cache
       ELSE LET k == CacheKey(issue) IN
            IF k \in CachedKeys
            THEN /\ Return(t, CacheValue(k))
                 /\ cache' = CacheTouch(k)
            ELSE /\ pc' = [pc EXCEPT ![t] = "wait"]
                 /\ key' = [key EXCEPT ![t] = k]
                 /\ ret' = [ret EXCEPT ![t] = NotReturned]
                 /\ UNCHANGED cache
    /\ UNCHANGED <<clock, last_call_time, lock, api_key, genai, wake,
                   clear_ret, done, dropped>>

\* Lines 107-122 up to and including lru_cache's lookup: the two
\* configuration checks, the prompt, then a hit (returned at once) or a miss
\* (the wrapped _call_gemini_for_prompt is entered).
generate_ai_explanation(t, issue) ==
    /\ pc[t] = "idle"
    /\ started < MaxExplains
    /\ started' = started + 1
    /\ IF KeyMissing
       THEN Return(t, NoKeyAdvisory) /\ UNCHANGED cache
       ELSE IF ~genai
       THEN Return(t, NoPackageAdvisory) /\ UNCHANGED cache
       ELSE LET k == CacheKey(issue) IN
            IF k \in CachedKeys
            THEN /\ Return(t, CacheValue(k))
                 /\ cache' = CacheTouch(k)
            ELSE /\ pc' = [pc EXCEPT ![t] = "wait"]
                 /\ key' = [key EXCEPT ![t] = k]
                 /\ ret' = [ret EXCEPT ![t] = NotReturned]
                 /\ UNCHANGED cache
    /\ UNCHANGED <<clock, last_call_time, lock, api_key, genai, wake,
                   clear_ret, done, dropped>>

\* Acquire without waiting for the lock to be free
AcquireUnguarded(t) ==
    /\ pc[t] = "wait"
    /\ lock' = t
    /\ LET now == clock
           elapsed == now - last_call_time
       IN IF elapsed < MIN_CALL_INTERVAL
          THEN /\ pc' = [pc EXCEPT ![t] = "sleep"]
               /\ wake' = [wake EXCEPT ![t] = now + (MIN_CALL_INTERVAL - elapsed)]
          ELSE /\ pc' = [pc EXCEPT ![t] = "stamp"]
               /\ UNCHANGED wake
    /\ UNCHANGED <<clock, last_call_time, cache, api_key, genai, key, ret,
                   clear_ret, started, done, dropped>>

\* Lines 73-76: take the lock, read the clock, decide whether to sleep.
Acquire(t) ==
    /\ pc[t] = "wait"
    /\ lock = "free"
    /\ lock' = t
    /\ LET now == clock
           elapsed == now - last_call_time
       IN IF elapsed < MIN_CALL_INTERVAL
          THEN /\ pc' = [pc EXCEPT ![t] = "sleep"]
               /\ wake' = [wake EXCEPT ![t] = now + (MIN_CALL_INTERVAL - elapsed)]
          ELSE /\ pc' = [pc EXCEPT ![t] = "stamp"]
               /\ UNCHANGED wake
    /\ UNCHANGED <<clock, last_call_time, cache, api_key, genai, key, ret,
                   clear_ret, started, done, dropped>>

\* a sleep that returns at once
SleepReturnsEarly(t) ==
    /\ pc[t] = "sleep"
    /\ pc' = [pc EXCEPT ![t] = "stamp"]
    /\ wake' = [wake EXCEPT ![t] = 0]
    /\ UNCHANGED <<clock, last_call_time, lock, cache, api_key, genai, key,
                   ret, clear_ret, started, done, dropped>>

\* Line 77: time.sleep returns once at least the requested time has passed.
Sleep(t) ==
    /\ pc[t] = "sleep"
    /\ clock >= wake[t]
    /\ pc' = [pc EXCEPT ![t] = "stamp"]
    /\ wake' = [wake EXCEPT ![t] = 0]
    /\ UNCHANGED <<clock, last_call_time, lock, cache, api_key, genai, key,
                   ret, clear_ret, started, done, dropped>>

\* Line 78: _last_call_time = time.time(), the last statement of the section.
Stamp(t) ==
    /\ pc[t] = "stamp"
    /\ last_call_time' = clock
    /\ pc' = [pc EXCEPT ![t] = "release"]
    /\ UNCHANGED <<clock, lock, cache, api_key, genai, key, wake, ret,
                   clear_ret, started, done, dropped>>

\* End of the `with _last_call_lock` block.
Release(t) ==
    /\ pc[t] = "release"
    /\ lock' = "free"
    /\ pc' = [pc EXCEPT ![t] = "client"]
    /\ UNCHANGED <<clock, last_call_time, cache, api_key, genai, key, wake,
                   ret, clear_ret, started, done, dropped>>

\* Lines 80-82: the client is built and generate_content is invoked.
StartCall(t) ==
    /\ pc[t] = "client"
    /\ pc' = [pc EXCEPT ![t] = "inflight"]
    /\ UNCHANGED <<clock, last_call_time, lock, cache, api_key, genai, key,
                   wake, ret, clear_ret, started, done, dropped>>

\* genai.Client(...) raises: the exception leaves lru_cache's wrapper (nothing
\* is stored) and is caught at line 123.
ClientRaise(t, error_msg) ==
    /\ pc[t] = "client"
    /\ Return(t, HandleException(error_msg))
    /\ UNCHANGED <<clock, last_call_time, lock, cache, api_key, genai, wake,
                   clear_ret, started, done, dropped>>

\* generate_content raises.
ApiRaise(t, error_msg) ==
    /\ pc[t] = "inflight"
    /\ Return(t, HandleException(error_msg))
    /\ UNCHANGED <<clock, last_call_time, lock, cache, api_key, genai, wake,
                   clear_ret, started, done, dropped>>

\* generate_content returns: lines 91-96, then lru_cache stores the result
\* and line 122 returns it.
Respond(t, response) ==
    /\ pc[t] = "inflight"
    /\ LET v == ResponseText(response)
           gone == Evicted(key[t])
       IN /\ cache' = CacheStore(key[t], v)
          /\ done' = {d \in done : d[1] \notin gone} \cup {<<key[t], v>>}
          /\ Return(t, v)
    /\ UNCHANGED <<clock, last_call_time, lock, api_key, genai, wake,
                   clear_ret, started, dropped>>

\* a clear that drops only the least recently used entry
ClearOldestOnly ==
    /\ cache' = IF cache = <<>> THEN <<>> ELSE Tail(cache)
    /\ clear_ret' = "True"
    /\ done' = {}
    /\ dropped' = dropped \cup CachedKeys
    /\ UNCHANGED <<clock, last_call_time, lock, api_key, genai, pc, key, wake,
                   ret, started>>

\* clear_ai_cache: cache_clear() cannot raise, so True is returned.
clear_ai_cache ==
    /\ cache' = <<>>
    /\ clear_ret' = "True"
    /\ done' = {}
    /\ dropped' = dropped \cup CachedKeys
    /\ UNCHANGED <<clock, last_call_time, lock, api_key, genai, pc, key, wake,
                   ret, started>>

\* time passes
Tick ==
    /\ clock < MaxClock
    /\ clock' = clock + 1
    /\ UNCHANGED <<last_call_time, lock, cache, api_key, genai, pc, key, wake,
                   ret, clear_ret, started, done, dropped>>

----------------------------------------------------------------------------
(* Scanner state while the Explainer runs *)

ScanIdle ==
    /\ spc = "idle"
    /\ url = <<>>
    /\ status_code = "None"
    /\ issues = <<>>
    /\ requests = <<>>
    /\ result = [returned |-> FALSE]

\* The process starts long after the epoch: the first elapsed time is large.
\* The environment (credential, client library) is fixed for the process.
Init ==
    /\ clock = MIN_CALL_INTERVAL
    /\ last_call_time = 0
    /\ lock = "free"
    /\ cache = <<>>
    /\ api_key \in ApiKeys
    /\ genai \in BOOLEAN
    /\ pc = [t \in Threads |-> "idle"]
    /\ key = [t \in Threads |-> NoKey]
    /\ wake = [t \in Threads |-> 0]
    /\ ret = [t \in Threads |-> NotReturned]
    /\ clear_ret = "not called"
    /\ started = 0
    /\ done = {}
    /\ dropped = {}
    /\ ScanIdle

Next ==
    \/ \E t \in Threads, issue \in ExplainIssues :
           generate_ai_explanation(t, issue) /\ UNCHANGED svars
    \/ \E t \in Threads : Acquire(t) /\ UNCHANGED svars
    \/ \E t \in Threads : Sleep(t) /\ UNCHANGED svars
    \/ \E t \in Threads : Stamp(t) /\ UNCHANGED svars
    \/ \E t \in Threads : Release(t) /\ UNCHANGED svars
    \/ \E t \in Threads : StartCall(t) /\ UNCHANGED svars
    \/ \E t \in Threads, e \in ErrorMsgs : ClientRaise(t, e) /\ UNCHANGED svars
    \/ \E t \in Threads, e \in ErrorMsgs : ApiRaise(t, e) /\ UNCHANGED svars
    \/ \E t \in Threads, r \in Responses : Respond(t, r) /\ UNCHANGED svars
    \/ clear_ai_cache /\ UNCHANGED svars
    \/ Tick /\ UNCHANGED svars

Spec == Init /\ [][Next]_vars

----------------------------------------------------------------------------
(* Explainer: properties *)

Configured == ~KeyMissing /\ genai

InSection(t) == pc[t] \in {"sleep", "stamp", "release"}

C2_OneCallInFlight == Cardinality({t \in Threads : pc[t] = "inflight"}) <= 1

\* C2 (amended): at most one caller is inside the rate-limiter section at a
\* time, and it is the holder of the lock; the external calls themselves are
\* made after the lock is released.
C2_OneCallerInSection ==
    /\ Cardinality({t \in Threads : InSection(t)}) <= 1
    /\ \A t \in Threads : InSection(t) <=> lock = t
    /\ \A t \in Threads : pc[t] \in {"client", "inflight"} => lock # t

\* one caller sleeps inside the section while the other waits for the lock
C2_Witness ==
    \E t, u \in Threads : pc[t] = "sleep" /\ pc[u] = "wait" /\ lock = t

\* C3: once a call's external call has returned text x for a prompt, a later
\* call on any issue that renders the same prompt (no clear_ai_cache and no
\* eviction of that prompt in between) returns at once, without an external
\* call, and returns x.
C3_LaterCallReturnsSameText ==
    [][\A t \in Threads, issue \in ExplainIssues :
          (generate_ai_explanation(t, issue) /\ Configured) =>
              \A d \in done :
                  d[1] = CacheKey(issue) => (pc'[t] = "idle" /\ ret'[t] = d[2])]_vars

\* C4: clear_ai_cache leaves the cache empty and returns True, also when the
\* cache was already empty and True already returned (idempotent); a call
\* that starts on the cache as clear_ai_cache left it takes the miss path to
\* the external call.
C4_ClearCache ==
    [][/\ clear_ai_cache => (cache' = <<>> /\ clear_ret' = "True")
       /\ (clear_ai_cache /\ cache = <<>> /\ clear_ret = "True") =>
              (cache' = cache /\ clear_ret' = clear_ret)
       /\ \A t \in Threads, issue \in ExplainIssues :
              (/\ generate_ai_explanation(t, issue)
               /\ Configured
               /\ clear_ret = "True"
               /\ cache = <<>>) =>
                  (pc'[t] = "wait" /\ key'[t] = CacheKey(issue))]_vars

\* a prompt that a clear removed from the cache is sent to the API again
C4_Witness ==
    \E t \in Threads :
        /\ pc[t] = "inflight"
        /\ key[t] \in dropped
        /\ clear_ret = "True"
        /\ cache = <<>>
        /\ \A u \in Threads \ {t} : pc[u] = "idle"

\* `word in error_msg.lower()` or `code in error_msg`
Mentions(error_msg, code, word) ==
    \E i \in 1..Len(error_msg) :
        error_msg[i] = code \/ LowerTok(error_msg[i]) = word

\* C5: an exception of the external call (client construction or
\* generate_content) never leaves generate_ai_explanation: the call returns
\* the quota advisory when the error text mentions 429 or quota, else the
\* authentication advisory when it mentions 401 or unauthorized, else the
\* permission advisory when it mentions 403 or permission, else the generic
\* advisory around the error text (words are matched without regard to case).
C5_ErrorsBecomeAdvisories ==
    [][\A t \in Threads, e \in ErrorMsgs :
          (ClientRaise(t, e) \/ ApiRaise(t, e)) =>
              /\ pc'[t] = "idle"
              /\ ret'[t] =
                    CASE Mentions(e, "429", "quota") -> QuotaAdvisory
                      [] ~Mentions(e, "429", "quota")
                           /\ Mentions(e, "401", "unauthorized") -> AuthAdvisory
                      [] ~Mentions(e, "429", "quota")
                           /\ ~Mentions(e, "401", "unauthorized")
                           /\ Mentions(e, "403", "permission") -> PermissionAdvisory
                      [] OTHER -> <<"Error: ">> \o e \o <<"check connection">>]_vars

\* both callers got an advisory for a failed external call, of two categories
C5_Witness ==
    \E t, u \in Threads :
        /\ pc[t] = "idle" /\ ret[t] = QuotaAdvisory
        /\ pc[u] = "idle" /\ ret[u] = GenericAdvisory(<<"timeout">>)

----------------------------------------------------------------------------
(* Scanner: security_checks.py *)

\* str.startswith for a url given as <<scheme prefix, rest>> tokens
StartsWith(u, prefix) == u # <<>> /\ u[1] = prefix

\* lines 124-125
NormalizeUrl(u) ==
    IF ~(StartsWith(u, "http://") \/ StartsWith(u, "https://"))
    THEN <<"https://">> \o u ELSE u

\* the urls handed to perform_security_scan
ScanUrls ==
    { <<"https://", "example.com">>, <<"http://", "example.com">>,
      <<"example.com">>, <<"HTTPS://", "example.com">>, <<>> }

\* check_https accepting any url that starts with "http"
CheckHttpsLoose(u) ==
    IF ~(StartsWith(u, "https://") \/ StartsWith(u, "http://"))
    THEN << [title |-> "Missing HTTPS", severity |-> "High",
             details |-> "Website does not use HTTPS encryption.",
             fix |-> "Configure SSL/TLS certificate and redirect HTTP traffic to HTTPS."] >>
    ELSE <<>>

\* check_https, with the `if https_issue: issues.append` of lines 135-136:
\* the findings it contributes
check_https(u) ==
    IF ~StartsWith(u, "https://")
    THEN << [title |-> "Missing HTTPS", severity |-> "High",
             details |-> "Website does not use HTTPS encryption.",
             fix |-> "Configure SSL/TLS certificate and redirect HTTP traffic to HTTPS."] >>
    ELSE <<>>

\* the dictionary security_headers, in insertion order
security_headers ==
    << [header |-> "Content-Security-Policy", description |-> "Prevents XSS attacks"],
       [header |-> "Strict-Transport-Security", description |-> "Forces HTTPS"],
       [header |-> "X-Frame-Options", description |-> "Prevents clickjacking"],
       [header |-> "X-Content-Type-Options", description |-> "Blocks MIME-type attacks"],
       [header |-> "Referrer-Policy", description |-> "Controls referrer information"],
       [header |-> "Permissions-Policy", description |-> "Controls browser features"] >>

\* header names as servers send them: requests keeps them in a
\* case-insensitive dictionary
RawNames ==
    { "Content-Security-Policy", "content-security-policy",
      "Strict-Transport-Security", "X-Frame-Options", "X-Content-Type-Options",
      "Referrer-Policy", "Permissions-Policy", "Server", "server" }

LowerName(n) ==
    CASE n = "Content-Security-Policy" -> "content-security-policy"
      [] n = "Strict-Transport-Security" -> "strict-transport-security"
      [] n = "X-Frame-Options" -> "x-frame-options"
      [] n = "X-Content-Type-Options" -> "x-content-type-options"
      [] n = "Referrer-Policy" -> "referrer-policy"
      [] n = "Permissions-Policy" -> "permissions-policy"
      [] n = "Server" -> "server"
      [] OTHER -> n

ServerValues == {"Apache/2.4.1", ""}

\* the response headers a GET may return: a family of header sets that has
\* every header of the reference set present in some and absent in others,
\* none, all six, a lower-case spelling, and the Server header in both
\* spellings, with a value and empty
ResponseHeaders ==
    UNION { { [n \in B \cup T \cup S |-> IF LowerName(n) = "server" THEN v ELSE "on"] :
                v \in ServerValues } :
            <<B, T, S>> \in
                { {}, {"content-security-policy"},
                  {"Content-Security-Policy", "X-Frame-Options", "Referrer-Policy"} }
                \X (SUBSET {"Strict-Transport-Security", "X-Content-Type-Options",
                            "Permissions-Policy"})
                \X { {}, {"Server"}, {"server"} } }

\* CaseInsensitiveDict.__contains__ and __getitem__
HasHeader(headers, h) == \E n \in DOMAIN headers : LowerName(n) = LowerName(h)
HeaderValue(headers, h) ==
    headers[CHOOSE n \in DOMAIN headers : LowerName(n) = LowerName(h)]

MissingHeaderIssue(h) ==
    [title |-> "Missing " \o h.header, severity |-> "Medium",
     details |-> "The " \o h.header \o " header is missing. " \o h.description,
     fix |-> "Add the '" \o h.header \o "' header to your web server configuration."]

\* the loop of lines 65-72 over security_headers[i..]
RECURSIVE HeaderLoop(_, _)
HeaderLoop(headers, i) ==
    IF i > Len(security_headers) THEN <<>>
    ELSE (IF ~HasHeader(headers, security_headers[i].header)
          THEN <<MissingHeaderIssue(security_headers[i])>> ELSE <<>>)
         \o HeaderLoop(headers, i + 1)

\* lines 96-103 of check_server_header with lines 144-145: the findings it
\* contributes for a response
ServerIssues(headers) ==
    IF HasHeader(headers, "Server")
    THEN << [title |-> "Server Information Exposed", severity |-> "Medium",
             details |-> "Server header reveals: '" \o HeaderValue(headers, "Server") \o "'.",
             fix |-> "Remove or obfuscate the Server header."] >>
    ELSE <<>>

\* Exceptions of the requests library and others, with their base classes
Exceptions ==
    { [class |-> "ReadTimeout", msg |-> "read timed out"],
      [class |-> "ConnectTimeout", msg |-> "connect timed out"],
      [class |-> "ConnectionError", msg |-> "name resolution failed"],
      [class |-> "SSLError", msg |-> "certificate verify failed"],
      [class |-> "InvalidURL", msg |-> "invalid url"],
      [class |-> "TooManyRedirects", msg |-> "exceeded 30 redirects"] }

Bases(class) ==
    CASE class = "ReadTimeout" -> {"ReadTimeout", "Timeout", "RequestException", "Exception"}
      [] class = "ConnectTimeout" ->
            {"ConnectTimeout", "ConnectionError", "Timeout", "RequestException", "Exception"}
      [] class = "ConnectionError" -> {"ConnectionError", "RequestException", "Exception"}
      [] class = "SSLError" -> {"SSLError", "ConnectionError", "RequestException", "Exception"}
      [] OTHER -> {class, "RequestException", "Exception"}

IsInstance(e, class) == class \in Bases(e.class)

TimeoutMessage == [text |-> "Error: Website took too long to respond (timeout)."]
ConnectMessage == [text |-> "Error: Cannot connect to website."]
OtherMessage(e) == [text |-> "Error during scan: ", error |-> e.msg]

FailureResult(message) ==
    [returned |-> TRUE, success |-> FALSE, message |-> message, issues |-> <<>>,
     total_issues |-> 0, status_code |-> "None"]

\* the except clauses with ConnectionError tested before Timeout
ScanFailureConnectFirst(e) ==
    IF IsInstance(e, "ConnectionError") THEN FailureResult(ConnectMessage)
    ELSE IF IsInstance(e, "Timeout") THEN FailureResult(TimeoutMessage)
    ELSE FailureResult(OtherMessage(e))

\* lines 155-178: the except clauses of perform_security_scan, in order
ScanFailure(e) ==
    IF IsInstance(e, "Timeout") THEN FailureResult(TimeoutMessage)
    ELSE IF IsInstance(e, "ConnectionError") THEN FailureResult(ConnectMessage)
    ELSE FailureResult(OtherMessage(e))

\* a result whose count leaves out the last finding
ScanSuccessMiscounted(code, found) ==
    [returned |-> TRUE, success |-> TRUE, status_code |-> code, issues |-> found,
     total_issues |-> IF found = <<>> THEN 0 ELSE Len(found) - 1,
     message |-> [text |-> "Scan complete!", found |-> Len(found)]]

\* lines 147-153
ScanSuccess(code, found) ==
    [returned |-> TRUE, success |-> TRUE, status_code |-> code, issues |-> found,
     total_issues |-> Len(found),
     message |-> [text |-> "Scan complete!", found |-> Len(found)]]

StatusCodes == {"200", "404"}

Ok(method, code, headers) ==
    [method |-> method, raised |-> FALSE, code |-> code, headers |-> headers]
Raised(method, e) == [method |-> method, raised |-> TRUE, exception |-> e]

\* lines 121-125: a scan starts
perform_security_scan(u) ==
    /\ spc = "idle"
    /\ spc' = "head"
    /\ url' = NormalizeUrl(u)
    /\ issues' = <<>>
    /\ status_code' = "None"
    /\ requests' = <<>>
    /\ result' = [returned |-> FALSE]
    /\ UNCHANGED evars

\* lines 129-136: the HEAD probe answers; check_https runs
HeadOk(code) ==
    /\ spc = "head"
    /\ requests' = Append(requests, Ok("HEAD", code, <<>>))
    /\ status_code' = code
    /\ issues' = issues \o check_https(url)
    /\ spc' = "headers"
    /\ UNCHANGED <<url, result>>
    /\ UNCHANGED evars

\* line 129 raises: lines 155-178 return the failure
HeadRaise(e) ==
    /\ spc = "head"
    /\ requests' = Append(requests, Raised("HEAD", e))
    /\ result' = ScanFailure(e)
    /\ spc' = "idle"
    /\ UNCHANGED <<url, status_code, issues>>
    /\ UNCHANGED evars

\* check_security_headers: the GET answers (lines 61-72, 139-140)
HeadersGetOk(headers) ==
    /\ spc = "headers"
    /\ requests' = Append(requests, Ok("GET", "200", headers))
    /\ issues' = issues \o HeaderLoop(headers, 1)
    /\ spc' = "server"
    /\ UNCHANGED <<url, status_code, result>>
    /\ UNCHANGED evars

\* check_security_headers with the exception left to propagate
HeadersGetRaisePropagates(e) ==
    /\ spc = "headers"
    /\ requests' = Append(requests, Raised("GET", e))
    /\ result' = ScanFailure(e)
    /\ spc' = "idle"
    /\ UNCHANGED <<url, status_code, issues>>
    /\ UNCHANGED evars

\* check_security_headers: the GET raises (lines 73-77): logged, no findings
HeadersGetRaise(e) ==
    /\ spc = "headers"
    /\ requests' = Append(requests, Raised("GET", e))
    /\ spc' = "server"
    /\ UNCHANGED <<url, status_code, issues, result>>
    /\ UNCHANGED evars

\* check_server_header: the GET answers (lines 92-103), then lines 144-153
ServerGetOk(headers) ==
    /\ spc = "server"
    /\ requests' = Append(requests, Ok("GET", "200", headers))
    /\ issues' = issues \o ServerIssues(headers)
    /\ result' = ScanSuccess(status_code, issues')
    /\ spc' = "idle"
    /\ UNCHANGED <<url, status_code>>
    /\ UNCHANGED evars

\* check_server_header: the GET raises (lines 104-107), then lines 147-153
ServerGetRaise(e) ==
    /\ spc = "server"
    /\ requests' = Append(requests, Raised("GET", e))
    /\ result' = ScanSuccess(status_code, issues)
    /\ spc' = "idle"
    /\ UNCHANGED <<url, status_code, issues>>
    /\ UNCHANGED evars

NextScan ==
    \/ \E u \in ScanUrls : perform_security_scan(u)
    \/ \E code \in StatusCodes : HeadOk(code)
    \/ \E e \in Exceptions : HeadRaise(e)
    \/ \E headers \in ResponseHeaders : HeadersGetOk(headers)
    \/ \E e \in Exceptions : HeadersGetRaise(e)
    \/ \E headers \in ResponseHeaders : ServerGetOk(headers)
    \/ \E e \in Exceptions : ServerGetRaise(e)

\* the scanner does not depend on the Explainer's environment
InitScan == Init /\ api_key = "secret" /\ genai = TRUE

SpecScan == InitScan /\ [][NextScan]_vars

----------------------------------------------------------------------------
(* Scanner: properties *)

HeadFailed == Len(requests) >= 1 /\ requests[1].raised
HeadAnswered == Len(requests) >= 1 /\ ~requests[1].raised

\* C7: every returned ScanResult has total_issues equal to the length of
\* issues, and a result with success false has no issues and no status code.
C7_ResultInvariant ==
    result.returned =>
        /\ result.total_issues = Len(result.issues)
        /\ ~result.success => (result.issues = <<>> /\ result.status_code = "None")

\* a successful scan that found the HTTPS, six header and server findings
C7_Witness ==
    /\ result.returned
    /\ result.success
    /\ result.total_issues = 8

\* the failure categories, by the class of the exception
FailureCategory(e) ==
    IF e.class \in {"ReadTimeout", "ConnectTimeout"} THEN "timeout"
    ELSE IF e.class \in {"ConnectionError", "SSLError"} THEN "connect"
    ELSE "other"

\* C8: when the HEAD probe raises, the scan is over at once: the HEAD is the
\* only request made (no GET, no second HEAD), no check has added a finding,
\* and the scan has returned success false with the message of the failure's
\* category: timeout, cannot connect, or 'Error during scan' with the error.
C8_HeadFailureIsFinal ==
    HeadFailed =>
        /\ spc = "idle"
        /\ Len(requests) = 1
        /\ requests[1].method = "HEAD"
        /\ issues = <<>>
        /\ result.returned
        /\ result.success = FALSE
        /\ result.message =
              CASE FailureCategory(requests[1].exception) = "timeout" ->
                       [text |-> "Error: Website took too long to respond (timeout)."]
                [] FailureCategory(requests[1].exception) = "connect" ->
                       [text |-> "Error: Cannot connect to website."]
                [] OTHER ->
                       [text |-> "Error during scan: ",
                        error |-> requests[1].exception.msg]

\* the HEAD probe timed out while connecting, and the scan returned
C8_Witness ==
    /\ HeadFailed
    /\ requests[1].exception.class = "ConnectTimeout"
    /\ result.returned

\* what a check contributed, given what its GET did
Contribution(request, found) == IF request.raised THEN <<>> ELSE found

\* C9: after a successful HEAD, a GET that raises in check_security_headers
\* or check_server_header does not end the scan: the scan goes on to the next
\* step, returns success with the status code of the HEAD, and its issues are
\* the findings of the other checks without any from the check that failed.
C9_SecondaryFailureNotFatal ==
    /\ (HeadAnswered /\ Len(requests) = 2 /\ requests[2].raised) =>
           (spc = "server" /\ issues = check_https(url) /\ ~result.returned)
    /\ (HeadAnswered /\ Len(requests) = 3
            /\ (requests[2].raised \/ requests[3].raised)) =>
           /\ spc = "idle"
           /\ result.returned
           /\ result.success
           /\ result.status_code = requests[1].code
           /\ result.issues =
                 check_https(url)
                 \o Contribution(requests[2], HeaderLoop(requests[2].headers, 1))
                 \o Contribution(requests[3], ServerIssues(requests[3].headers))

\* the headers GET raised, the server GET answered with a Server header, and
\* the scan returned the HTTPS and the server finding
C9_Witness ==
    /\ HeadAnswered
    /\ Len(requests) = 3
    /\ requests[2].raised
    /\ ~requests[3].raised
    /\ result.returned
    /\ Len(result.issues) = 2

ReferenceHeaders ==
    << "Content-Security-Policy", "Strict-Transport-Security", "X-Frame-Options",
       "X-Content-Type-Options", "Referrer-Policy", "Permissions-Policy" >>

Absent(headers, name) == \A n \in DOMAIN headers : LowerName(n) # LowerName(name)

TitleAndSeverity(found) ==
    [i \in 1..Len(found) |-> <<found[i].title, found[i].severity>>]

ExpectedHttps == IF url[1] # "https://" THEN << <<"Missing HTTPS", "High">> >> ELSE <<>>

ExpectedHeaders(request) ==
    IF request.raised THEN <<>>
    ELSE LET missing == SelectSeq(ReferenceHeaders,
                                  LAMBDA name : Absent(request.headers, name))
         IN [i \in 1..Len(missing) |-> <<"Missing " \o missing[i], "Medium">>]

ExpectedServer(request) ==
    IF ~request.raised /\ ~Absent(request.headers, "Server")
    THEN << <<"Server Information Exposed", "Medium">> >> ELSE <<>>

\* C10: the issues of a successful scan are, in this order: the High
\* 'Missing HTTPS' finding iff the normalised url does not start with
\* https://; one Medium finding per reference header absent from the response
\* of the first GET, in the order of the reference set (six when all are
\* absent); one Medium server finding iff the response of the second GET has
\* a Server header.  (A GET that raised has no response and adds nothing.)
C10_IssuesInOrder ==
    (result.returned /\ result.success) =>
        /\ Len(requests) = 3
        /\ TitleAndSeverity(result.issues) =
              ExpectedHttps \o ExpectedHeaders(requests[2]) \o ExpectedServer(requests[3])
        /\ (~requests[2].raised /\ \A i \in 1..6 : Absent(requests[2].headers, ReferenceHeaders[i]))
              => Len(ExpectedHeaders(requests[2])) = 6

\* an http:// url, a first response without any header and a second one
\* with the Server header spelled in lower case: eight findings
C10_Witness ==
    /\ result.returned
    /\ result.success
    /\ url[1] = "http://"
    /\ Len(requests) = 3
    /\ ~requests[2].raised
    /\ DOMAIN requests[2].headers = {}
    /\ ~requests[3].raised
    /\ "server" \in DOMAIN requests[3].headers
    /\ Len(result.issues) = 8

----------------------------------------------------------------------------
(* Explainer: properties of the cache entries and of the miss path *)

\* the external call produced an explanation: a response with text
ProducedExplanation(response) ==
    response.truthy /\ "text" \in DOMAIN response /\ response.text # <<>>

\* C11: a key enters the cache only in a step in which the external call for
\* that prompt returns a response with text (not when it raises, and not when
\* the response is empty or missing); a key leaves the cache only by a
\* clear_ai_cache or as the least recently used entry of a full cache when
\* another key is stored.
C11_EntriesOnlyFromExplanations ==
    [][\A k \in Keys :
          /\ (k \notin CachedKeys /\ k \in CachedKeys') =>
                \E t \in Threads, r \in Responses :
                    key[t] = k /\ ProducedExplanation(r) /\ Respond(t, r)
          /\ (k \in CachedKeys /\ k \notin CachedKeys') =>
                \/ clear_ai_cache
                \/ /\ Len(cache) = maxsize
                   /\ k = cache[1].key
                   /\ \E t \in Threads, r \in Responses :
                          key[t] \notin CachedKeys /\ Respond(t, r)]_vars

\* C12: concurrent callers on the same prompt do not duplicate the external
\* call: generate_content is never invoked for a prompt while another
\* invocation for that prompt is in flight, nor after one has returned (and
\* the prompt has been neither cleared nor evicted since).
C12_NoDuplicateCalls ==
    [][\A t \in Threads :
          StartCall(t) =>
              /\ \A u \in Threads \ {t} : ~(pc[u] = "inflight" /\ key[u] = key[t])
              /\ \A d \in done : d[1] # key[t]]_vars

\* C13: a call answered from the cache returns in the step of the lookup,
\* whoever holds the rate limiter's lock, and leaves the lock and
\* _last_call_time as they were; a call that misses goes through the section:
\* it takes the free lock, writes the current time to _last_call_time while
\* holding it, and only then reaches the external call; an external call that
\* raises leaves that time stamp in place.
C13_RateLimiterOnlyOnMiss ==
    [][\A t \in Threads :
          /\ \A issue \in ExplainIssues :
                (generate_ai_explanation(t, issue) /\ Configured) =>
                    /\ lock' = lock
                    /\ last_call_time' = last_call_time
                    /\ pc'[t] = IF CacheKey(issue) \in CachedKeys
                                THEN "idle" ELSE "wait"
          /\ (pc[t] = "wait" /\ pc'[t] # "wait") =>
                (lock = "free" /\ lock' = t /\ pc'[t] \in {"sleep", "stamp"})
          /\ (pc[t] = "sleep" /\ pc'[t] # "sleep") => (pc'[t] = "stamp" /\ lock' = t)
          /\ (pc[t] = "stamp" /\ pc'[t] # "stamp") =>
                (pc'[t] = "release" /\ lock = t /\ last_call_time' = clock)
          /\ (pc[t] = "release" /\ pc'[t] # "release") => pc'[t] = "client"
          /\ (pc'[t] = "inflight" /\ pc[t] # "inflight") => pc[t] = "client"
          /\ \A e \in ErrorMsgs :
                (ClientRaise(t, e) \/ ApiRaise(t, e)) =>
                    (last_call_time' = last_call_time /\ last_call_time > 0)]_vars

\* two calls have been made and both returned the text "A", with a single
\* time stamp taken (at the start of the process) and time having passed
\* since: one call went to the API, the other was answered from the cache
C13_Witness ==
    /\ started = 2
    /\ \A t \in Threads : pc[t] = "idle" /\ ret[t] = <<"A">>
    /\ Len(cache) = 1
    /\ clear_ret = "not called"
    /\ last_call_time = MIN_CALL_INTERVAL
    /\ clock >= last_call_time + MIN_CALL_INTERVAL

====
